---------------------------- MODULE Spec2Model ----------------------------
(***************************************************************************)
(* Model of generate_guest_pages.py: main() loads a guest table, and       *)
(* generate_pages() walks it row by row, writing one QR image and one HTML *)
(* page per guest and collecting one output record per guest; main() then  *)
(* exports the records as result.csv and result.xlsx.                      *)
(*                                                                         *)
(* Text is a sequence of string tokens: characters for the data that comes *)
(* from the table, whole literals for the pieces of the f-strings.         *)
(***************************************************************************)
EXTENDS Integers, Sequences, FiniteSets, TLC

\* ------------------------------------------------------------------ bounds
\* Largest number of guest rows of an input table.
MaxGuests == 2
\* Longest phone string fed to clean_phone in SpecCleanPhone.
MaxLen == 3

\* ------------------------------------------------------------ sample inputs
\* Name cells: one needing strip() and holding an inner space, one plain.
NameSamples == { <<" ", "A", " ", "L", " ">>, <<"B">> }
\* Phone cells: punctuation of every removed kind, one needing strip(), one plain.
PhoneSamples == { <<"+", "1", " ", "(", "5", ")", "-", "7">>, <<" ", "5", "5", "\t">>, <<"7">> }
\* Index labels other than the default RangeIndex (a filtered, concatenated or
\* re-indexed frame, or a CSV whose data rows hold one more field than its header).
LabelSamples == { 1, 9 }
\* Characters of the phone strings of SpecCleanPhone.
PhoneAlphabet == { "+", "-", " ", "(", ")", "5", "x" }

\* ------------------------------------------------------------------- config
INPUT_FILE == [dir |-> <<"data">>, file |-> <<"guests.csv">>]
OUTPUT_DIR == <<"output", "guest_pages">>
QR_DIR == OUTPUT_DIR \o <<"qr">>
RESULT_CSV == [dir |-> OUTPUT_DIR, file |-> <<"result.csv">>]
RESULT_XLSX == [dir |-> OUTPUT_DIR, file |-> <<"result.xlsx">>]
\* "https://shady-mo20.github.io/qr/", split as urlparse splits it.
BASE_URL == [scheme |-> "https", netloc |-> "shady-mo20.github.io", path |-> <<"/", "qr", "/">>]

VARIABLES
  input_file,  \* the table data/guests.csv holds: [cols, index, data]
  pc,          \* position of the run
  err,         \* the exception that ended the run, "none" while it runs
  df_in,       \* main's df_in / generate_pages' df, NoTable before read_csv
  dirs,        \* directories created by mkdir
  pos,         \* number of rows df.iterrows() has yielded
  frame,       \* generate_pages' locals of the current iteration
  rows,        \* generate_pages' rows list
  df_out,      \* main's df_out, NoResult before generate_pages returns
  writes,      \* the files written, in order: [path, content]
  cp_arg,      \* SpecCleanPhone: the argument of clean_phone
  cp_res       \* SpecCleanPhone: the results of the successive calls

vars == <<input_file, pc, err, df_in, dirs, pos, frame, rows, df_out, writes, cp_arg, cp_res>>

\* ------------------------------------------------------------ str helpers
DigitChars == <<"0", "1", "2", "3", "4", "5", "6", "7", "8", "9">>

\* str(n) of a non-negative int: its decimal digits.
RECURSIVE Dec(_)
Dec(n) == IF n < 10 THEN <<DigitChars[n + 1]>>
          ELSE Dec(n \div 10) \o <<DigitChars[(n % 10) + 1]>>

\* The characters str.strip() removes at both ends.
Whitespace == { " ", "\t", "\n" }

RECURSIVE LStrip(_)
LStrip(s) == IF s # <<>> /\ Head(s) \in Whitespace THEN LStrip(Tail(s)) ELSE s

RECURSIVE RStrip(_)
RStrip(s) == IF s # <<>> /\ s[Len(s)] \in Whitespace
             THEN RStrip(SubSeq(s, 1, Len(s) - 1)) ELSE s

\* str.strip()
Strip(s) == RStrip(LStrip(s))

\* s.replace(old, "") for a one-character old: scan left to right, drop each match.
RECURSIVE Replace(_, _)
Replace(s, old) == IF s = <<>> THEN <<>>
                   ELSE IF Head(s) = old THEN Replace(Tail(s), old)
                   ELSE <<Head(s)>> \o Replace(Tail(s), old)

\* A plausible slip: the closing parenthesis is not removed.
clean_phone_no_rparen(phone) ==
  Replace(Replace(Replace(Replace(phone, "+"), "-"), " "), "(")

clean_phone(phone) ==
  Replace(Replace(Replace(Replace(Replace(phone, "+"), "-"), " "), "("), ")")

\* --------------------------------------------------------------- make_qr
\* The PNG make_qr saves: the encoded text, resized to 600x600, in the fixed colours.
make_qr(data) ==
  [data |-> data, error_correction |-> "H", size |-> <<600, 600>>,
   fill_color |-> "#128C7E", back_color |-> "white"]

\* ----------------------------------------------------------- f-strings
\* f"https://wa.me/{phone_clean}"
WaLink(phone_clean) == <<"https://wa.me/">> \o phone_clean

\* The four lines of qr_content.
QrContent(guest_id, name, phone, wa_link) ==
  <<"Guest ID: ">> \o Dec(guest_id) \o <<"\n", "Name: ">> \o name
    \o <<"\n", "Phone: ">> \o phone \o <<"\n", "WhatsApp: ">> \o wa_link

\* f"guest_{idx + 1}.png"
QrFilename(idx) == <<"guest_">> \o Dec(idx + 1) \o <<".png">>

\* f"guest_{idx + 1}.html"
HtmlFilename(idx) == <<"guest_">> \o Dec(idx + 1) \o <<".html">>

\* CARD_TEMPLATE.format(...): the template's seven substituted places, each with
\* the literal text the template puts around the placeholder.
CARD_TEMPLATE(name, guest_id, phone_link, phone_display, qr_filename) ==
  [title         |-> name,
   img_src       |-> <<"qr/">> \o qr_filename,
   card_title    |-> name,
   card_subtitle |-> <<"Guest ID #">> \o Dec(guest_id),
   tel_href      |-> <<"tel:">> \o phone_link,
   tel_text      |-> phone_display,
   wa_href       |-> <<"https://wa.me/">> \o phone_link]

\* ---------------------------------------------------------------- urljoin
\* The base path up to and including its last "/": what a relative reference
\* is appended to.
RECURSIVE BaseDir(_)
BaseDir(path) == IF path = <<>> THEN <<"/">>
                 ELSE IF path[Len(path)] = "/" THEN path
                 ELSE BaseDir(SubSeq(path, 1, Len(path) - 1))

\* urllib.parse.urljoin(base, url) for a url that has no scheme and no netloc:
\* an empty url gives the base, a url starting with "/" replaces the base path,
\* any other url replaces the last segment of the base path.
urljoin(base, url) ==
  LET root == <<base.scheme, "://", base.netloc>>
  IN IF url = <<>> THEN root \o base.path
     ELSE IF Head(url) = "/" THEN root \o url
     ELSE root \o BaseDir(base.path) \o url

\* ------------------------------------------------------------ the records
\* A plausible slip: the two values stored under each other's key.
OutputRecord_swapped(phone, name, public_link) ==
  << <<"phone", name>>, <<"name", phone>>, <<"Param1", public_link>> >>

\* The dict appended to rows: its keys in insertion order.
OutputRecord(phone, name, public_link) ==
  << <<"phone", phone>>, <<"name", name>>, <<"Param1", public_link>> >>

RECURSIVE MapSeq(_, _)
MapSeq(s, i) == IF s = <<>> THEN <<>> ELSE <<Head(s)[i]>> \o MapSeq(Tail(s), i)

RECURSIVE RowValues(_)
RowValues(rs) == IF rs = <<>> THEN <<>>
                 ELSE <<MapSeq(Head(rs), 2)>> \o RowValues(Tail(rs))

\* pd.DataFrame(rows) of a list of dicts with the same keys: the columns are the
\* keys of the dicts in their order, and a list without dicts gives no column.
DataFrame(rs) ==
  [columns |-> IF rs = <<>> THEN <<>> ELSE MapSeq(Head(rs), 1),
   data    |-> RowValues(rs)]

\* The locals of generate_pages before the first iteration.
NoFrame ==
  [idx |-> -1, name |-> <<>>, phone |-> <<>>, phone_clean |-> <<>>, wa_link |-> <<>>,
   qr_content |-> <<>>, qr_filename |-> <<>>, html_filename |-> <<>>]

NoTable == [cols |-> {}, index |-> <<>>, data |-> <<>>]

NoResult == [columns |-> <<>>, data |-> <<>>]

\* ------------------------------------------------------------ input tables
RECURSIVE Tuples(_, _)
Tuples(S, n) == IF n = 0 THEN { <<>> }
                ELSE { Append(t, x) : t \in Tuples(S, n - 1), x \in S }

\* The default index of read_csv: 0, 1, ..., n-1.
RECURSIVE RangeIndex(_)
RangeIndex(n) == IF n = 0 THEN <<>> ELSE Append(RangeIndex(n - 1), n - 1)

IndexChoices(n) == IF n = 0 THEN { <<>> }
                   ELSE { RangeIndex(n) } \cup Tuples(LabelSamples, n)

ColChoices == SUBSET { "Name", "phone" }

\* The rows of a table with the columns c.
RowsFor(c) ==
  { [k \in c |-> IF k = "Name" THEN nm ELSE ph] : nm \in NameSamples, ph \in PhoneSamples }

Tables ==
  UNION { { [cols |-> c, index |-> ix, data |-> d] :
              ix \in IndexChoices(n), d \in Tuples(RowsFor(c), n) } :
          c \in ColChoices, n \in 0..MaxGuests }

RECURSIVE TextsUpTo(_, _)
TextsUpTo(S, n) == IF n = 0 THEN { <<>> }
                   ELSE TextsUpTo(S, n - 1) \cup Tuples(S, n)

\* ------------------------------------------------------------------- Init
Init ==
  /\ input_file \in Tables
  /\ pc = "read_csv"
  /\ err = "none"
  /\ df_in = NoTable
  /\ dirs = {}
  /\ pos = 0
  /\ frame = NoFrame
  /\ rows = <<>>
  /\ df_out = NoResult
  /\ writes = <<>>
  /\ cp_arg = <<>>
  /\ cp_res = <<>>

Raise(e) == pc' = "failed" /\ err' = e

\* ------------------------------------------------------------------- main
\* df_in = pd.read_csv(INPUT_FILE): the table, or an error for a file that cannot
\* be opened or parsed.
ReadCsv ==
  /\ pc = "read_csv"
  /\ \/ /\ df_in' = input_file
        /\ pc' = "mkdir"
        /\ err' = err
     \/ /\ Raise("ReadError")
        /\ df_in' = df_in
  /\ UNCHANGED <<input_file, dirs, pos, frame, rows, df_out, writes, cp_arg, cp_res>>

\* --------------------------------------------------------- generate_pages
\* OUTPUT_DIR.mkdir(...); QR_DIR.mkdir(...); rows = []
Mkdir ==
  /\ pc = "mkdir"
  /\ \/ /\ dirs' = { OUTPUT_DIR, QR_DIR }
        /\ rows' = <<>>
        /\ pc' = "iter"
        /\ err' = err
     \/ /\ dirs' = { OUTPUT_DIR }
        /\ rows' = rows
        /\ Raise("OSError")
     \/ /\ dirs' = dirs
        /\ rows' = rows
        /\ Raise("OSError")
  /\ UNCHANGED <<input_file, df_in, pos, frame, df_out, writes, cp_arg, cp_res>>

\* A plausible slip: row.get(...) in place of row[...], so that a missing column
\* reads as an empty cell and the row is processed.
ForRow_lenient ==
  /\ pc = "iter"
  /\ pos < Len(df_in.index)
  /\ LET idx == df_in.index[pos + 1]
         row == df_in.data[pos + 1]
         name == Strip(IF "Name" \in DOMAIN row THEN row["Name"] ELSE <<"n", "a", "n">>)
         phone == Strip(IF "phone" \in DOMAIN row THEN row["phone"] ELSE <<"n", "a", "n">>)
         phone_clean == clean_phone(phone)
         wa_link == WaLink(phone_clean)
     IN /\ pos' = pos + 1
        /\ frame' = [frame EXCEPT
                       !.idx = idx, !.name = name, !.phone = phone,
                       !.phone_clean = phone_clean, !.wa_link = wa_link,
                       !.qr_content = QrContent(idx + 1, name, phone, wa_link),
                       !.qr_filename = QrFilename(idx)]
        /\ pc' = "make_qr"
        /\ err' = err
  /\ UNCHANGED <<input_file, df_in, dirs, rows, df_out, writes, cp_arg, cp_res>>

\* for idx, row in df.iterrows(): the next row and its index label; then the
\* locals up to qr_filename. row["Name"] and row["phone"] raise KeyError for a
\* column the table does not have.
ForRow ==
  /\ pc = "iter"
  /\ pos < Len(df_in.index)
  /\ LET idx == df_in.index[pos + 1]
         row == df_in.data[pos + 1]
     IN /\ pos' = pos + 1
        /\ IF "Name" \notin DOMAIN row
           THEN /\ frame' = [frame EXCEPT !.idx = idx]
                /\ Raise("KeyError")
           ELSE IF "phone" \notin DOMAIN row
           THEN /\ frame' = [frame EXCEPT !.idx = idx, !.name = Strip(row["Name"])]
                /\ Raise("KeyError")
           ELSE LET name == Strip(row["Name"])
                    phone == Strip(row["phone"])
                    phone_clean == clean_phone(phone)
                    wa_link == WaLink(phone_clean)
                IN /\ frame' = [frame EXCEPT
                                  !.idx = idx, !.name = name, !.phone = phone,
                                  !.phone_clean = phone_clean, !.wa_link = wa_link,
                                  !.qr_content = QrContent(idx + 1, name, phone, wa_link),
                                  !.qr_filename = QrFilename(idx)]
                   /\ pc' = "make_qr"
                   /\ err' = err
  /\ UNCHANGED <<input_file, df_in, dirs, rows, df_out, writes, cp_arg, cp_res>>

\* A plausible variant: a guest whose image cannot be made is skipped and the
\* loop goes on with the next guest.
MakeQr_skip ==
  /\ pc = "make_qr"
  /\ \/ /\ writes' = Append(writes, [path |-> [dir |-> QR_DIR, file |-> frame.qr_filename],
                                     content |-> make_qr(frame.qr_content)])
        /\ pc' = "write_text"
     \/ /\ writes' = writes
        /\ pc' = "iter"
  /\ UNCHANGED <<input_file, err, df_in, dirs, pos, frame, rows, df_out, cp_arg, cp_res>>

\* make_qr(qr_content, QR_DIR / qr_filename): the image is saved, or the
\* encoding or the save raises.
MakeQr ==
  /\ pc = "make_qr"
  /\ \/ /\ writes' = Append(writes, [path |-> [dir |-> QR_DIR, file |-> frame.qr_filename],
                                     content |-> make_qr(frame.qr_content)])
        /\ pc' = "write_text"
        /\ err' = err
     \/ /\ writes' = writes
        /\ Raise("QrError")
  /\ UNCHANGED <<input_file, df_in, dirs, pos, frame, rows, df_out, cp_arg, cp_res>>

\* html_filename = ...; (OUTPUT_DIR / html_filename).write_text(CARD_TEMPLATE.format(...))
WriteHtml ==
  /\ pc = "write_text"
  /\ frame' = [frame EXCEPT !.html_filename = HtmlFilename(frame.idx)]
  /\ \/ /\ writes' = Append(writes,
                        [path |-> [dir |-> OUTPUT_DIR, file |-> frame'.html_filename],
                         content |-> CARD_TEMPLATE(frame.name, frame.idx + 1, frame.phone_clean,
                                                   frame.phone, frame.qr_filename)])
        /\ pc' = "append"
        /\ err' = err
     \/ /\ writes' = writes
        /\ Raise("HtmlError")
  /\ UNCHANGED <<input_file, df_in, dirs, pos, rows, df_out, cp_arg, cp_res>>

\* A plausible slip: rows.insert(0, ...) in place of rows.append(...).
AppendRow_front ==
  /\ pc = "append"
  /\ rows' = <<OutputRecord(frame.phone, frame.name,
                            urljoin(BASE_URL, frame.html_filename))>> \o rows
  /\ pc' = "iter"
  /\ UNCHANGED <<input_file, err, df_in, dirs, pos, frame, df_out, writes, cp_arg, cp_res>>

\* public_link = urljoin(BASE_URL, html_filename); rows.append({...})
AppendRow ==
  /\ pc = "append"
  /\ rows' = Append(rows, OutputRecord(frame.phone, frame.name,
                                       urljoin(BASE_URL, frame.html_filename)))
  /\ pc' = "iter"
  /\ UNCHANGED <<input_file, err, df_in, dirs, pos, frame, df_out, writes, cp_arg, cp_res>>

\* The loop is exhausted: return pd.DataFrame(rows), which main binds to df_out.
Return ==
  /\ pc = "iter"
  /\ pos = Len(df_in.index)
  /\ df_out' = DataFrame(rows)
  /\ pc' = "to_csv"
  /\ UNCHANGED <<input_file, err, df_in, dirs, pos, frame, rows, writes, cp_arg, cp_res>>

\* ------------------------------------------------------------ main, export
\* df_out.to_csv(RESULT_CSV, index=False, ...): the header line and the rows.
ToCsv ==
  /\ pc = "to_csv"
  /\ \/ /\ writes' = Append(writes, [path |-> RESULT_CSV, content |-> df_out])
        /\ pc' = "to_excel"
        /\ err' = err
     \/ /\ writes' = writes
        /\ Raise("ExportError")
  /\ UNCHANGED <<input_file, df_in, dirs, pos, frame, rows, df_out, cp_arg, cp_res>>

\* df_out.to_excel(RESULT_XLSX, index=False), then the two status lines.
ToExcel ==
  /\ pc = "to_excel"
  /\ \/ /\ writes' = Append(writes, [path |-> RESULT_XLSX, content |-> df_out])
        /\ pc' = "done"
        /\ err' = err
     \/ /\ writes' = writes
        /\ Raise("ExportError")
  /\ UNCHANGED <<input_file, df_in, dirs, pos, frame, rows, df_out, cp_arg, cp_res>>

Next ==
  \/ ReadCsv
  \/ Mkdir
  \/ ForRow
  \/ MakeQr
  \/ WriteHtml
  \/ AppendRow
  \/ Return
  \/ ToCsv
  \/ ToExcel

Spec == Init /\ [][Next]_vars

\* ------------------------------------------------- clean_phone on its own
InitCleanPhone ==
  /\ cp_arg \in TextsUpTo(PhoneAlphabet, MaxLen)
  /\ cp_res = <<>>
  /\ input_file = NoTable
  /\ pc = "clean_phone"
  /\ err = "none"
  /\ df_in = NoTable
  /\ dirs = {}
  /\ pos = 0
  /\ frame = NoFrame
  /\ rows = <<>>
  /\ df_out = NoResult
  /\ writes = <<>>

\* clean_phone(p), then clean_phone of the result.
CallCleanPhone ==
  /\ pc = "clean_phone"
  /\ Len(cp_res) < 2
  /\ cp_res' = Append(cp_res, clean_phone(IF cp_res = <<>> THEN cp_arg ELSE cp_res[Len(cp_res)]))
  /\ UNCHANGED <<input_file, pc, err, df_in, dirs, pos, frame, rows, df_out, writes, cp_arg>>

NextCleanPhone == CallCleanPhone

SpecCleanPhone == InitCleanPhone /\ [][NextCleanPhone]_vars

\* ================================================================ claims
\* The number of guest rows of the input table.
N == Len(input_file.index)

HasBothColumns == input_file.cols = { "Name", "phone" }

\* The trimmed name and phone of the input row at position k (1-based).
TrimmedName(k) == Strip(input_file.data[k]["Name"])
TrimmedPhone(k) == Strip(input_file.data[k]["phone"])

IsResult(w) == w.path \in { RESULT_CSV, RESULT_XLSX }
IsImage(w) == w.path.dir = QR_DIR
IsPage(w) == w.path.dir = OUTPUT_DIR /\ ~IsResult(w)
IsGuestFile(w) == ~IsResult(w)

\* The image writes, the page writes, the guest-file writes and the exports, in order.
Images == SelectSeq(writes, IsImage)
Pages == SelectSeq(writes, IsPage)
GuestFiles == SelectSeq(writes, IsGuestFile)
Results == SelectSeq(writes, IsResult)

\* The paths written so far.
Written == { writes[i].path : i \in 1..Len(writes) }

\* The value a dict of rows holds under a key.
Get(rec, key) == rec[CHOOSE i \in 1..Len(rec) : rec[i][1] = key][2]

\* The cell of a table in row k under the column named c.
Cell(df, k, c) == df.data[k][CHOOSE j \in 1..Len(df.columns) : df.columns[j] = c]

\* The text of a payload up to its first line break.
RECURSIVE FirstLine(_)
FirstLine(t) == IF t = <<>> \/ Head(t) = "\n" THEN <<>>
                ELSE <<Head(t)>> \o FirstLine(Tail(t))

\* The file names the claims expect for the guest at position k.
ImageNameAt(k) == <<"guest_">> \o Dec(k) \o <<".png">>
PageNameAt(k) == <<"guest_">> \o Dec(k) \o <<".html">>

\* The configured base URL as text.
BaseUrlText == <<"https", "://", "shady-mo20.github.io", "/", "qr", "/">>

\* C1: for every guest processed, the identifier in the payload, in the image file
\* name, in the HTML file name and in the HTML subtitle is the guest's 1-based
\* position in the input table.
C1_IdentifierIsPosition ==
  /\ \A k \in 1..Len(Images) :
       /\ Images[k].path.file = ImageNameAt(k)
       /\ FirstLine(Images[k].content.data) = <<"Guest ID: ">> \o Dec(k)
  /\ \A k \in 1..Len(Pages) :
       /\ Pages[k].path.file = PageNameAt(k)
       /\ Pages[k].content.card_subtitle = <<"Guest ID #">> \o Dec(k)

Removed == { "+", "-", "(", ")", " " }
Kept(c) == c \notin Removed

\* C3: clean_phone(p) is p without its "+", "-", "(", ")" and space characters, the
\* others kept in order, and a second application changes nothing.
C3_CleanPhone ==
  /\ Len(cp_res) >= 1 => cp_res[1] = SelectSeq(cp_arg, Kept)
  /\ Len(cp_res) >= 2 => cp_res[2] = cp_res[1]

\* Both calls made, on a phone that loses some characters and keeps others.
C3_Witness ==
  /\ Len(cp_res) = 2
  /\ cp_res[1] # cp_arg
  /\ cp_res[1] # <<>>
  /\ ")" \in { cp_arg[i] : i \in 1..Len(cp_arg) }

\* C4: the public link of the guest at position k is the base URL followed by the
\* name of the HTML file written for that guest, guest_<k>.html.
C4_PublicLink ==
  \A k \in 1..Len(rows) :
    /\ Get(rows[k], "Param1") = BaseUrlText \o Pages[k].path.file
    /\ Get(rows[k], "Param1") = BaseUrlText \o PageNameAt(k)

\* C5: the HTML file of the guest at position k references qr/guest_<k>.png, the
\* image written for the same guest, has the trimmed name as title and heading,
\* dials clean_phone of the trimmed phone and displays the trimmed phone.
C5_PageContent ==
  \A k \in 1..Len(Pages) :
    LET page == Pages[k].content
    IN /\ page.img_src = <<"qr/">> \o ImageNameAt(k)
       /\ page.img_src = <<"qr/">> \o Images[k].path.file
       /\ page.title = TrimmedName(k)
       /\ page.card_title = TrimmedName(k)
       /\ page.tel_href = <<"tel:">> \o SelectSeq(TrimmedPhone(k), Kept)
       /\ page.tel_text = TrimmedPhone(k)

\* C6: within one run no two guests share an identifier, an image file name or an
\* HTML file name, so no file is written twice.
C6_DistinctArtifacts ==
  /\ \A i, j \in 1..Len(writes) : i # j => writes[i].path # writes[j].path
  /\ \A i, j \in 1..Len(Images) :
       i # j => FirstLine(Images[i].content.data) # FirstLine(Images[j].content.data)

\* C7: an unreadable input, or a table with guest rows that lacks the Name or the
\* phone column, ends the run before anything is written: no image, no HTML file,
\* no output record, no result table.
C7_InputShapeError ==
  /\ err \in { "ReadError", "KeyError" } =>
       /\ pc = "failed"
       /\ ~ENABLED Next
       /\ writes = <<>> /\ rows = <<>> /\ df_out = NoResult
  /\ (N >= 1 /\ ~HasBothColumns) =>
       /\ pc \in { "read_csv", "mkdir", "iter", "failed" }
       /\ pos > 0 => pc = "failed" /\ err = "KeyError"
       /\ writes = <<>> /\ rows = <<>> /\ df_out = NoResult

\* The run has stopped on a missing column of a table with two rows.
C7_Witness ==
  /\ pc = "failed"
  /\ err = "KeyError"
  /\ N = 2
  /\ dirs = { OUTPUT_DIR, QR_DIR }

\* C8: a completed run exports result.csv and result.xlsx with exactly the columns
\* phone, name, Param1 and one row per guest, also for a table without guest rows.
C8_ResultSchema ==
  pc = "done" =>
    /\ Len(Results) = 2
    /\ Results[1].path = RESULT_CSV
    /\ Results[2].path = RESULT_XLSX
    /\ \A i \in 1..2 :
         /\ Results[i].content.columns = <<"phone", "name", "Param1">>
         /\ Len(Results[i].content.data) = N

\* C9: a failure while writing the image or the HTML file of the guest at position k
\* ends the run there: the files of the guests 1..k-1 are in place, nothing of a
\* later guest is written, the failed write is not tried again, and no result file
\* is written.
C9_FailureAtGuest ==
  (pc = "failed" /\ err \in { "QrError", "HtmlError" }) =>
    /\ ~ENABLED Next
    /\ \A j \in 1..(pos - 1) :
         /\ [dir |-> QR_DIR, file |-> QrFilename(input_file.index[j])] \in Written
         /\ [dir |-> OUTPUT_DIR, file |-> HtmlFilename(input_file.index[j])] \in Written
    /\ Len(Images) = IF err = "HtmlError" THEN pos ELSE pos - 1
    /\ Len(Pages) = pos - 1
    /\ Len(rows) = pos - 1
    /\ Results = <<>>

\* The second guest's HTML file could not be written.
C9_Witness ==
  /\ pc = "failed"
  /\ err = "HtmlError"
  /\ pos = 2
  /\ N = 2

\* The output record of the guest at position k, as the run ends up holding it.
FinalRow(k) ==
  OutputRecord(TrimmedPhone(k), TrimmedName(k),
               urljoin(BASE_URL, HtmlFilename(input_file.index[k])))

\* The guest files are written image, page, image, page, ... in input order, and
\* the records follow the pages: at most one guest is between image and record.
C10_Order ==
  /\ \A k \in 1..Len(rows) : rows[k] = FinalRow(k)
  /\ \A i \in 1..Len(GuestFiles) :
       GuestFiles[i].path =
         IF i % 2 = 1
         THEN [dir |-> QR_DIR, file |-> QrFilename(input_file.index[(i + 1) \div 2])]
         ELSE [dir |-> OUTPUT_DIR, file |-> HtmlFilename(input_file.index[i \div 2])]
  /\ 2 * Len(rows) <= Len(GuestFiles)
  /\ Len(GuestFiles) <= 2 * Len(rows) + 2
  /\ Len(rows) <= N

\* C10: guests are processed one after another in input order, image first, then
\* the HTML file, then the record; the result sequence only grows by appending.
C10_Sequential ==
  /\ []C10_Order
  /\ [][Len(rows') >= Len(rows) /\ SubSeq(rows', 1, Len(rows)) = rows]_vars

\* The first guest has its record, the second its image and page but no record yet.
C10_Witness ==
  /\ pc = "append"
  /\ Len(rows) = 1
  /\ Len(GuestFiles) = 4

=============================================================================
